---- MODULE Spec2Model ----
(***************************************************************************)
(* A sequential (automaton) network built from three layers: an input      *)
(* layer, a minterm layer and a Hopfield attractor layer.                  *)
(*                                                                         *)
(* Conventions of the model                                                *)
(*  - a numpy vector is a sequence of integers, a matrix a sequence of     *)
(*    rows;                                                                *)
(*  - a Python dict is the sequence of its items in insertion order, each  *)
(*    item a record [id, state];                                           *)
(*  - a float that is not an integer is held as an exact fraction: the     *)
(*    Hebbian matrix and the thresholds are records [num, den] with        *)
(*    den > 0, and every comparison the code makes on them is made on the  *)
(*    cross-multiplied integers;                                           *)
(*  - a string that the code upper-cases is a sequence of one-character    *)
(*    strings; every other label is a TLA+ string;                         *)
(*  - a method is an operator from the object (a record of its fields) to  *)
(*    [self |-> the object afterwards, raised |-> the exception or "none", *)
(*    ret |-> the returned value].                                         *)
(***************************************************************************)
EXTENDS Integers, Sequences, FiniteSets, TLC

VARIABLES
    states,         \* SequentialNetwork.states: the state codebook
    transitions,    \* SequentialNetwork.transitions: one list of (source, target) per relation
    input_strings,  \* SequentialNetwork.input_strings: the relation labels
    inputs,         \* SequentialNetwork.inputs: relation label -> relation vector
    input_layer,    \* SequentialNetwork.input_layer: Network
    minterm_layer,  \* SequentialNetwork.minterm_layer: Network
    state_layer,    \* SequentialNetwork.state_layer, or a HopfieldNetwork on its own
    op,             \* the last call made
    arg,            \* its argument (a sequence; << >> when it has none)
    ret,            \* what it returned, or the exception it raised
    log             \* the last line it logged

vars == <<states, transitions, input_strings, inputs, input_layer, minterm_layer,
          state_layer, op, arg, ret, log>>

-----------------------------------------------------------------------------
(* Bounds of the model *)

\* SpecRelax: largest dimension N of the network
MaxRelaxN == 2
\* SpecRelax: largest number of patterns in the store
MaxRelaxK == 2
\* Spec: largest dimension N of the state codes
MaxSeqN == 4
MaxLayersN == 2
MaxWeightsN == 2
MaxTargetN == 2
MaxStuckN == 2
\* SpecClosest: largest dimension N of the network
MaxClosestN == 4
\* SpecClosest: largest number of patterns in the store
MaxClosestK == 2
\* SpecStore: the dimension N of the network
StoreN == 2
\* SpecStore: largest size the pattern store may grow to, and longest list or
\* dict handed to one add_states call
MaxStore == 2

-----------------------------------------------------------------------------
(* numpy *)

RECURSIVE SumSeq(_)
SumSeq(s) == IF s = << >> THEN 0 ELSE Head(s) + SumSeq(Tail(s))

\* a[i] * b[i] + ... + a[Len(a)] * b[Len(a)]
RECURSIVE DotFrom(_, _, _)
DotFrom(a, b, i) == IF i > Len(a) THEN 0 ELSE a[i] * b[i] + DotFrom(a, b, i + 1)

\* np.dot of two vectors
Dot(a, b) == DotFrom(a, b, 1)

\* np.dot of a matrix and a vector
MatVec(W, v) == [i \in 1..Len(W) |-> Dot(W[i], v)]

\* np.sign
Sign(x) == IF x > 0 THEN 1 ELSE IF x < 0 THEN -1 ELSE 0

\* np.zeros
Zeros(n) == [i \in 1..n |-> 0]
ZerosMatrix(r, c) == [i \in 1..r |-> Zeros(c)]

\* np.outer(state, state)
Outer(a, b) == [i \in 1..Len(a) |-> [j \in 1..Len(b) |-> a[i] * b[j]]]

MatAdd(A, B) == [i \in 1..Len(A) |-> [j \in 1..Len(A[i]) |-> A[i][j] + B[i][j]]]

\* np.fill_diagonal(A, v)
FillDiagonal(A, v) == [i \in 1..Len(A) |-> [j \in 1..Len(A[i]) |-> IF i = j THEN v ELSE A[i][j]]]

\* the vectors np.random.choice([-1, 1], size=(n,)) can return
Bipolar(n) == [1..n -> {-1, 1}]

-----------------------------------------------------------------------------
(* Python dict, in insertion order *)

Keys(d) == {d[i].id : i \in 1..Len(d)}

IndexOf(d, id) == CHOOSE i \in 1..Len(d) : d[i].id = id

Get(d, id) == d[IndexOf(d, id)].state

\* d[id] = state: a new key goes last, an existing key keeps its place
DictSet(d, id, state) ==
    IF id \in Keys(d)
    THEN [d EXCEPT ![IndexOf(d, id)] = [id |-> id, state |-> state]]
    ELSE Append(d, [id |-> id, state |-> state])

\* del d[id]
DictDel(d, id) ==
    LET k == IndexOf(d, id)
    IN  [i \in 1..(Len(d) - 1) |-> IF i < k THEN d[i] ELSE d[i + 1]]

-----------------------------------------------------------------------------
(* class Network *)

Ok(self) == [self |-> self, raised |-> "none", ret |-> "None"]
Raise(self, exc) == [self |-> self, raised |-> exc, ret |-> "None"]

\* Network.__init__ (for N > 0); currState is the random vector drawn
Network(N, random_state) ==
    [N            |-> N,
     currState    |-> random_state,
     lowerWeights |-> ZerosMatrix(N, N),
     upperWeights |-> ZerosMatrix(N, N),
     thresholds   |-> [num |-> Zeros(N), den |-> 1],
     upperNetwork |-> "None",
     lowerNetwork |-> "None"]

\* the objects a neighbour reference can point at, by the name of the
\* attribute of SequentialNetwork that holds them
Heap ==
    [input_layer |-> input_layer, minterm_layer |-> minterm_layer, state_layer |-> state_layer]

set_current_state(self, state) ==
    IF Len(state) # self.N
    THEN Raise(self, "ValueError")
    ELSE Ok([self EXCEPT !.currState = state])

set_upper_network(self, upper_network) == [self EXCEPT !.upperNetwork = upper_network]

set_lower_network(self, lower_network) == [self EXCEPT !.lowerNetwork = lower_network]

\* the shape of a matrix given as a non-empty sequence of rows
Shape(matrix) == <<Len(matrix), Len(matrix[1])>>

\* _validate_weights without the check of the thresholds' shape
validate_weights_raises_matrices_only(heap, self, lower, upper, thresholds) ==
    \/ self.lowerNetwork # "None" /\ Shape(lower) # <<self.N, heap[self.lowerNetwork].N>>
    \/ self.upperNetwork # "None" /\ Shape(upper) # <<self.N, heap[self.upperNetwork].N>>

\* _validate_weights raises; every array handed over in the model is a float array
validate_weights_raises(heap, self, lower, upper, thresholds) ==
    \/ self.lowerNetwork # "None" /\ Shape(lower) # <<self.N, heap[self.lowerNetwork].N>>
    \/ self.upperNetwork # "None" /\ Shape(upper) # <<self.N, heap[self.upperNetwork].N>>
    \/ Len(thresholds.num) # self.N

set_outer_weights(heap, self, lower, upper, thresholds) ==
    IF validate_weights_raises(heap, self, lower, upper, thresholds)
    THEN Raise(self, "ValueError")
    ELSE Ok([self EXCEPT !.lowerWeights = lower,
                         !.upperWeights = upper,
                         !.thresholds = thresholds])

\* weighted_input, before the thresholds are subtracted
weighted_input(heap, self) ==
    LET up  == IF self.upperNetwork # "None"
               THEN MatVec(self.upperWeights, heap[self.upperNetwork].currState)
               ELSE Zeros(self.N)
        low == IF self.lowerNetwork # "None"
               THEN MatVec(self.lowerWeights, heap[self.lowerNetwork].currState)
               ELSE Zeros(self.N)
    IN  [i \in 1..self.N |-> up[i] + low[i]]

\* new_state keeping the layer's own component where the net input is zero
apical_new_state_keep(heap, self) ==
    LET w == weighted_input(heap, self)
    IN  [i \in 1..self.N |->
            IF self.thresholds.den * w[i] - self.thresholds.num[i] = 0
            THEN self.currState[i]
            ELSE Sign(self.thresholds.den * w[i] - self.thresholds.num[i])]

\* new_state = np.sign(weighted_input - self.thresholds), with thresholds = num / den
apical_new_state(heap, self) ==
    LET w == weighted_input(heap, self)
    IN  [i \in 1..self.N |-> Sign(self.thresholds.den * w[i] - self.thresholds.num[i])]

compute_apical_state(heap, self) == set_current_state(self, apical_new_state(heap, self))

-----------------------------------------------------------------------------
(* class HopfieldNetwork(Network) *)

\* max_iterations of compute_hopfield_state
max_iterations == 1000
\* the default threshold of find_closest_state, 0.75 = threshold_num / threshold_den
threshold_num == 3
threshold_den == 4

\* HopfieldNetwork.__init__: no attribute `weights` yet (weights.set = FALSE)
HopfieldNetwork(N, random_state) ==
    [N            |-> N,
     currState    |-> random_state,
     lowerWeights |-> ZerosMatrix(N, N),
     upperWeights |-> ZerosMatrix(N, N),
     thresholds   |-> [num |-> Zeros(N), den |-> 1],
     upperNetwork |-> "None",
     lowerNetwork |-> "None",
     states       |-> << >>,
     weights      |-> [set |-> FALSE, num |-> << >>, den |-> 1]]

\* the sum of np.outer(state, state) over self.states.values()
RECURSIVE outer_sum(_, _, _)
outer_sum(items, i, acc) ==
    IF i > Len(items) THEN acc
    ELSE outer_sum(items, i + 1, MatAdd(acc, Outer(items[i].state, items[i].state)))

\* weights = num / den: the outer sum over len(self.states), then the diagonal zeroed
compute_hopfield_weights(self) ==
    IF Len(self.states) = 0
    THEN Raise([self EXCEPT !.weights =
                    [set |-> TRUE, num |-> ZerosMatrix(self.N, self.N), den |-> 1]],
               "ValueError")
    ELSE Ok([self EXCEPT !.weights =
                    [set |-> TRUE,
                     num |-> FillDiagonal(
                                 outer_sum(self.states, 1, ZerosMatrix(self.N, self.N)), 0),
                     den |-> Len(self.states)]])

add_single_state(self, state_id, state) ==
    IF Len(state) # self.N
    THEN Raise(self, "ValueError")
    ELSE compute_hopfield_weights(
             [self EXCEPT !.states = DictSet(self.states, state_id, state)])

\* the loop of _add_states_from_list; i counts from 1, enumerate from 0
RECURSIVE add_states_from_list_loop(_, _, _)
add_states_from_list_loop(self, lst, i) ==
    IF i > Len(lst) THEN Ok(self)
    ELSE LET state_id == "pattern_" \o ToString(Len(self.states) + (i - 1))
             r == add_single_state(self, state_id, lst[i])
         IN  IF r.raised # "none" THEN r
             ELSE add_states_from_list_loop(r.self, lst, i + 1)

add_states_from_list(self, lst) ==
    IF \E i \in 1..Len(lst) : Len(lst[i]) # self.N
    THEN Raise(self, "ValueError")
    ELSE add_states_from_list_loop(self, lst, 1)

RECURSIVE add_states_from_dict(_, _)
add_states_from_dict(self, items) ==
    IF items = << >> THEN Ok(self)
    ELSE IF Len(Head(items).state) # self.N
         THEN Raise(self, "ValueError")
         ELSE LET r == add_single_state(self, Head(items).id, Head(items).state)
              IN  IF r.raised # "none" THEN r
                  ELSE add_states_from_dict(r.self, Tail(items))

\* add_states; given is [dict |-> isinstance(states, dict), items |-> states]
add_states(self, given) ==
    LET r == IF given.dict
             THEN add_states_from_dict(self, given.items)
             ELSE add_states_from_list(self, given.items)
    IN  IF r.raised # "none" THEN r ELSE compute_hopfield_weights(r.self)

\* remove_state without the recomputation of the weights
remove_state_stale(self, state_id) ==
    IF state_id \notin Keys(self.states)
    THEN Raise(self, "KeyError")
    ELSE IF Len(self.states) = 1
         THEN Raise([self EXCEPT !.states = << >>], "ValueError")
         ELSE Ok([self EXCEPT !.states = DictDel(self.states, state_id)])

remove_state(self, state_id) ==
    IF state_id \notin Keys(self.states)
    THEN Raise(self, "KeyError")
    ELSE compute_hopfield_weights(
             [self EXCEPT !.states = DictDel(self.states, state_id)])

\* np.sign(weighted_input) alone: a zero weighted input gives 0
hopfield_new_state_sign(self, current) ==
    LET w == MatVec(self.weights.num, current)
    IN  [i \in 1..self.N |-> Sign(w[i])]

\* np.sign(weighted_input) with new_state[weighted_input == 0] = 1
hopfield_new_state(self, current) ==
    LET w == MatVec(self.weights.num, current)
    IN  [i \in 1..self.N |-> IF w[i] = 0 THEN 1 ELSE Sign(w[i])]

\* one iteration of the for loop of compute_hopfield_state; once the loop has
\* returned (converged) the remaining iterations do not run
hopfield_iteration(self, loop) ==
    IF loop.converged THEN loop
    ELSE LET new_state == hopfield_new_state(self, loop.current)
         IN  [current |-> new_state, converged |-> new_state = loop.current]

\* `count` iterations of the loop, one after the other; the recursion halves
\* the count so that its depth stays logarithmic
RECURSIVE hopfield_loop(_, _, _)
hopfield_loop(self, loop, count) ==
    IF count = 0 THEN loop
    ELSE IF count = 1 THEN hopfield_iteration(self, loop)
    ELSE LET half == hopfield_loop(self, loop, count \div 2)
         IN  IF half.converged THEN half
             ELSE hopfield_loop(self, half, count - (count \div 2))

\* the loop of find_closest_state; similarities are held as dot products (times 1 / N)
RECURSIVE closest_loop(_, _, _, _, _)
closest_loop(self, target_state, i, best_match, best_dot) ==
    IF i > Len(self.states) THEN [best_match |-> best_match, best_dot |-> best_dot]
    ELSE LET d == Dot(target_state, self.states[i].state)
         IN  IF d > best_dot
             THEN closest_loop(self, target_state, i + 1, self.states[i].id, d)
             ELSE closest_loop(self, target_state, i + 1, best_match, best_dot)

\* best_similarity > threshold
similar_enough_strict(self, best_dot) == threshold_den * best_dot > threshold_num * self.N

\* best_similarity >= threshold
similar_enough(self, best_dot) == threshold_den * best_dot >= threshold_num * self.N

find_closest_state(self, target_state) ==
    IF Len(self.states) = 0
    THEN Raise(self, "ValueError")
    ELSE LET best == closest_loop(self, target_state, 1, "Unknown pattern", -self.N)
         IN  [self |-> self, raised |-> "none",
              ret  |-> IF similar_enough(self, best.best_dot)
                       THEN best.best_match ELSE "Unknown pattern"]

compute_hopfield_state(self) ==
    IF ~self.weights.set
    THEN Raise(self, "ValueError") @@ [log |-> "none"]
    ELSE LET end == hopfield_loop(self, [current |-> self.currState, converged |-> FALSE],
                                  max_iterations)
         IN  find_closest_state([self EXCEPT !.currState = end.current], end.current)
                 @@ [log |-> IF end.converged THEN "Network converged"
                             ELSE "Network did not converge"]

-----------------------------------------------------------------------------
(* A HopfieldNetwork on its own: the pattern store and its Hebbian matrix *)

\* the vectors handed to the calls on a network of dimension N: two bipolar
\* vectors of that shape (all +1, and all +1 but the last component)
Vectors(N) ==
    {[i \in 1..N |-> 1],
     [i \in 1..N |-> IF i = N THEN -1 ELSE 1]}

\* a vector of another shape
WrongShape(N) == [i \in 1..(N + 1) |-> 1]

\* the ids handed to add_single_state, remove_state and the dict form of add_states
Ids == {"A", "pattern_1"}

Lists(N) == UNION {[1..k -> Vectors(N)] : k \in 0..MaxStore} \cup {<<WrongShape(N)>>}

Dicts(N) ==
    {d \in UNION {[1..k -> [id : Ids, state : Vectors(N)]] : k \in 0..MaxStore} :
        \A i, j \in 1..Len(d) : i # j => d[i].id # d[j].id}
    \cup {<<[id |-> "A", state |-> WrongShape(N)]>>}

\* no SequentialNetwork is built around the HopfieldNetwork
Alone ==
    /\ states = << >>
    /\ transitions = << >>
    /\ input_strings = << >>
    /\ inputs = << >>
    /\ input_layer = "None"
    /\ minterm_layer = "None"

\* the result r of a call made on state_layer directly: an exception reaches the caller
Called(name, given, r) ==
    /\ state_layer' = r.self
    /\ op' = name
    /\ arg' = given
    /\ ret' = IF r.raised # "none" THEN r.raised ELSE r.ret
    /\ UNCHANGED <<states, transitions, input_strings, inputs, input_layer, minterm_layer>>

\* a call on the store; calls that would grow it beyond MaxStore are left out
StoreCalled(name, given, r) ==
    /\ Len(r.self.states) <= MaxStore
    /\ Called(name, given, r)
    /\ log' = "none"

\* the constructor's random state is drawn from the sample vectors: no store
\* method reads currState
InitStore ==
    /\ Alone
    /\ \E random_state \in Vectors(StoreN) :
           state_layer = HopfieldNetwork(StoreN, random_state)
    /\ op = "__init__"
    /\ arg = << >>
    /\ ret = "None"
    /\ log = "none"

AddStatesList ==
    \E lst \in Lists(state_layer.N) :
        StoreCalled("add_states:list", lst, add_states(state_layer, [dict |-> FALSE, items |-> lst]))

AddStatesDict ==
    \E d \in Dicts(state_layer.N) :
        StoreCalled("add_states:dict", << >>, add_states(state_layer, [dict |-> TRUE, items |-> d]))

AddSingleState ==
    \E state_id \in Ids : \E state \in Vectors(state_layer.N) \cup {WrongShape(state_layer.N)} :
        StoreCalled("add_single_state", << >>, add_single_state(state_layer, state_id, state))

RemoveState ==
    \E state_id \in Ids \cup Keys(state_layer.states) :
        StoreCalled("remove_state", << >>, remove_state(state_layer, state_id))

NextStore == AddStatesList \/ AddStatesDict \/ AddSingleState \/ RemoveState

SpecStore == InitStore /\ [][NextStore]_vars

\* C8: a list-form add_states call that returns normally grows the store by
\* exactly the number of vectors given, leaves every item stored before the
\* call in the store with its vector, and stores every vector given.
C8_ListAddKeepsEveryVector ==
    [][(op' = "add_states:list" /\ ret' = "None") =>
          LET old == state_layer.states
              new == state_layer'.states
          IN  /\ Len(new) = Len(old) + Len(arg')
              /\ \A i \in 1..Len(old) : \E j \in 1..Len(new) : new[j] = old[i]
              /\ \A k \in 1..Len(arg') : \E j \in 1..Len(new) : new[j].state = arg'[k]
      ]_vars

\* the sum over the stored patterns p of p[i] * p[j]
HebbianSum(patterns, i, j) ==
    SumSeq([k \in 1..Len(patterns) |-> patterns[k].state[i] * patterns[k].state[j]])

-----------------------------------------------------------------------------
(* A HopfieldNetwork on its own: relaxation from a state set by the caller *)

\* the keys of the dicts drawn at Init, in insertion order
StateIds == <<"A", "B", "C", "D", "E">>

\* the patterns stored: all +1, all +1 but the last component, all +1 but the first
Patterns(N) ==
    {[i \in 1..N |-> 1],
     [i \in 1..N |-> IF i = N THEN -1 ELSE 1],
     [i \in 1..N |-> IF i = 1 THEN -1 ELSE 1]}

\* the states handed to set_current_state: an apical update can leave zeros
Starts(N) == [1..N -> {-1, 0, 1}]

\* the dict {StateIds[1]: codes[1], ...}
Codebook(codes) == [k \in 1..Len(codes) |-> [id |-> StateIds[k], state |-> codes[k]]]

InitRelax ==
    /\ Alone
    /\ \E N \in 1..MaxRelaxN : \E K \in 1..MaxRelaxK :
       \E codes \in [1..K -> Patterns(N)] : \E random_state \in Bipolar(N) :
           state_layer = add_states(HopfieldNetwork(N, random_state),
                                    [dict |-> TRUE, items |-> Codebook(codes)]).self
    /\ op = "add_states:dict"
    /\ arg = << >>
    /\ ret = "None"
    /\ log = "none"

SetCurrentState ==
    \E state \in Starts(state_layer.N) :
        /\ Called("set_current_state", << >>, set_current_state(state_layer, state))
        /\ log' = "none"

\* the result r of compute_hopfield_state and the line it logged
Relaxed(r) ==
    /\ Called("compute_hopfield_state", << >>, r)
    /\ log' = r.log

ComputeHopfieldState == Relaxed(compute_hopfield_state(state_layer))

NextRelax == SetCurrentState \/ ComputeHopfieldState

SpecRelax == InitRelax /\ [][NextRelax]_vars

\* the stored patterns are pairwise orthogonal
MutuallyOrthogonal(patterns) ==
    \A i, j \in 1..Len(patterns) :
        i # j => Dot(patterns[i].state, patterns[j].state) = 0

\* C3: when the store holds mutually orthogonal patterns and the current state
\* is a stored pattern, relaxation returns that pattern's label and leaves the
\* current state equal to the pattern.
C3_RelaxRecallsStoredPattern ==
    [][(op' = "compute_hopfield_state" /\ MutuallyOrthogonal(state_layer.states)) =>
          \A k \in 1..Len(state_layer.states) :
              state_layer.states[k].state = state_layer.currState =>
                  /\ ret' = state_layer.states[k].id
                  /\ state_layer'.currState = state_layer.states[k].state
      ]_vars

\* sign(W * v), a zero weighted input giving +1
TieBreakSign(W, v) == [i \in 1..Len(v) |-> IF Dot(W[i], v) >= 0 THEN 1 ELSE -1]

-----------------------------------------------------------------------------
(* find_closest_state as a function of the store and the target *)

\* a network built by HopfieldNetwork(N), add_states(dict) and
\* set_current_state(target), which replaces the random state
InitClosest ==
    /\ Alone
    /\ \E N \in 1..MaxClosestN : \E K \in 1..MaxClosestK :
       \E codes \in [1..K -> Patterns(N)] : \E target \in Starts(N) :
           state_layer =
               set_current_state(
                   add_states(HopfieldNetwork(N, [i \in 1..N |-> 1]),
                              [dict |-> TRUE, items |-> Codebook(codes)]).self,
                   target).self
    /\ op = "set_current_state"
    /\ arg = << >>
    /\ ret = "None"
    /\ log = "none"

\* find_closest_state called on the layer's current state, as compute_hopfield_state calls it
FindClosestState ==
    /\ Called("find_closest_state", state_layer.currState,
              find_closest_state(state_layer, state_layer.currState))
    /\ log' = "none"

NextClosest == FindClosestState

SpecClosest == InitClosest /\ [][NextClosest]_vars

\* the largest dot product of v with a stored pattern
MaxDot(patterns, v) ==
    CHOOSE d \in {Dot(v, patterns[k].state) : k \in 1..Len(patterns)} :
        \A k \in 1..Len(patterns) : Dot(v, patterns[k].state) <= d

\* the first pattern, in store order, that attains it
FirstBest(patterns, v) ==
    CHOOSE k \in 1..Len(patterns) :
        /\ Dot(v, patterns[k].state) = MaxDot(patterns, v)
        /\ \A m \in 1..(k - 1) : Dot(v, patterns[m].state) # MaxDot(patterns, v)

\* C7: find_closest_state returns the label of the first pattern in store order
\* that attains the largest similarity dot / N when that similarity is at least
\* 0.75, and the sentinel when it is below 0.75.
C7_ClosestPattern ==
    op = "find_closest_state" =>
        LET P == state_layer.states
        IN  IF threshold_den * MaxDot(P, arg) >= threshold_num * state_layer.N
            THEN ret = P[FirstBest(P, arg)].id
            ELSE ret = "Unknown pattern"

\* the best similarity is exactly 0.75 and two stored patterns attain it
C7_Witness ==
    /\ op = "find_closest_state"
    /\ Len(state_layer.states) = 2
    /\ threshold_den * Dot(arg, state_layer.states[1].state) = threshold_num * state_layer.N
    /\ threshold_den * Dot(arg, state_layer.states[2].state) = threshold_num * state_layer.N
    /\ ret = "A"

-----------------------------------------------------------------------------
(* src/utils.py: the minterms and the weights synthesised from them *)

\* the minterms of transition group i
group_minterms(codebook, transitions_i, relation_signal) ==
    [j \in 1..Len(transitions_i) |->
        [relation_signal |-> relation_signal,
         input_pattern   |-> Get(codebook, transitions_i[j][1]),
         output_state    |-> Get(codebook, transitions_i[j][2])]]

\* create_minterm_data: the minterms of groups i, i + 1, ... in order
RECURSIVE create_minterm_data(_, _, _, _)
create_minterm_data(codebook, transition_data, relation_signals, i) ==
    IF i > Len(transition_data) THEN << >>
    ELSE group_minterms(codebook, transition_data[i], relation_signals[i])
             \o create_minterm_data(codebook, transition_data, relation_signals, i + 1)

\* np.linalg.norm(v) ** 2
NormSq(v) == Dot(v, v)

\* _generate_minterm_weights_and_thresholds with thresholds 2.5 below the norms
generate_minterm_weights_and_thresholds_loose(minterms) ==
    [lower_weights |-> [i \in 1..Len(minterms) |-> minterms[i].relation_signal],
     upper_weights |-> [i \in 1..Len(minterms) |-> minterms[i].input_pattern],
     thresholds    |->
         [num |-> [i \in 1..Len(minterms) |->
                      2 * (NormSq(minterms[i].input_pattern)
                           + NormSq(minterms[i].relation_signal)) - 5],
          den |-> 2]]

\* _generate_minterm_weights_and_thresholds; thresholds[i] is
\* state_norm_sq + signal_norm_sq - 0.5, held as (2 * (...) - 1) / 2
generate_minterm_weights_and_thresholds(minterms) ==
    [lower_weights |-> [i \in 1..Len(minterms) |-> minterms[i].relation_signal],
     upper_weights |-> [i \in 1..Len(minterms) |-> minterms[i].input_pattern],
     thresholds    |->
         [num |-> [i \in 1..Len(minterms) |->
                      2 * (NormSq(minterms[i].input_pattern)
                           + NormSq(minterms[i].relation_signal)) - 1],
          den |-> 2]]

\* offset_c with the other output states added instead of subtracted
offset_c_added(minterms, i, k) ==
    SumSeq([j \in 1..Len(minterms) |-> IF i # j THEN minterms[j].output_state[k] ELSE 0])

\* offset_c of _calculate_state_thresholds for minterm i, at component k
offset_c(minterms, i, k) ==
    SumSeq([j \in 1..Len(minterms) |-> IF i # j THEN -minterms[j].output_state[k] ELSE 0])

\* _calculate_state_thresholds: the sum of the offsets over num_minterms
calculate_state_thresholds(minterms, state_size) ==
    [num |-> [k \in 1..state_size |->
                 SumSeq([i \in 1..Len(minterms) |-> offset_c(minterms, i, k)])],
     den |-> Len(minterms)]

\* _generate_state_weights_and_thresholds: column i is the output state of minterm i
generate_state_weights_and_thresholds(minterms, state_size) ==
    [lower_state_weights |->
         [k \in 1..state_size |-> [i \in 1..Len(minterms) |-> minterms[i].output_state[k]]],
     state_thresholds |-> calculate_state_thresholds(minterms, state_size)]

\* generate_minterm_weights, for a non-empty list of minterms of consistent sizes
generate_minterm_weights(minterms) ==
    LET state_size == Len(minterms[1].input_pattern)
        m == generate_minterm_weights_and_thresholds(minterms)
        t == generate_state_weights_and_thresholds(minterms, state_size)
    IN  [lowerWeights      |-> m.lower_weights,
         upperWeights      |-> m.upper_weights,
         thresholds        |-> m.thresholds,
         lowerStateWeights |-> t.lower_state_weights,
         stateThresholds   |-> t.state_thresholds]

-----------------------------------------------------------------------------
(* class SequentialNetwork *)

\* str.upper(), on the letters the labels of the model are written in
UpperChar(c) ==
    CASE c = "g" -> "G"
      [] c = "o" -> "O"
      [] c = "u" -> "U"
      [] c = "p" -> "P"
      [] c = "x" -> "X"
      [] OTHER   -> c

Upper(str) == [i \in 1..Len(str) |-> UpperChar(str[i])]

\* bipolar_matrix: -1 everywhere, +1 on the diagonal
bipolar_matrix(n) == FillDiagonal([i \in 1..n |-> [j \in 1..n |-> -1]], 1)

\* the dict comprehension {input_strings[i]: bipolar_matrix[i] for i in range(n)}
RECURSIVE inputs_dict(_, _, _, _)
inputs_dict(labels, n, i, acc) ==
    IF i > n THEN acc
    ELSE inputs_dict(labels, n, i + 1, DictSet(acc, labels[i], bipolar_matrix(n)[i]))

\* list(d.values())
Values(d) == [i \in 1..Len(d) |-> d[i].state]

\* _initialise_networks: the three layers, given the random states drawn by the
\* constructors of the input layer and of the minterm layer (that of the state
\* layer is replaced by the first code)
initialise_networks(codebook, transition_data, labels, random_input, random_minterm) ==
    LET N            == Len(codebook[1].state)
        relations    == inputs_dict(labels, Len(transition_data), 1, << >>)
        minterms     == create_minterm_data(codebook, transition_data, Values(relations), 1)
        minterm_data == generate_minterm_weights(minterms)
        input0       == Network(Len(relations), random_input)
        minterm0     == set_upper_network(
                            set_lower_network(
                                Network(Len(minterm_data.thresholds.num), random_minterm),
                                "input_layer"),
                            "state_layer")
        state0       == HopfieldNetwork(N, Zeros(N))
        heap0        == [input_layer |-> input0, minterm_layer |-> minterm0, state_layer |-> state0]
        minterm1     == set_outer_weights(heap0, minterm0, minterm_data.lowerWeights,
                                          minterm_data.upperWeights, minterm_data.thresholds)
        state1       == add_states(state0, [dict |-> TRUE, items |-> codebook])
        state2       == set_lower_network(state1.self, "minterm_layer")
        heap1        == [heap0 EXCEPT !.minterm_layer = minterm1.self]
        state3       == set_outer_weights(heap1, state2, minterm_data.lowerStateWeights,
                                          ZerosMatrix(N, N), minterm_data.stateThresholds)
        state4       == set_current_state(state3.self, Values(codebook)[1])
    IN  [inputs        |-> relations,
         input_layer   |-> input0,
         minterm_layer |-> minterm1.self,
         state_layer   |-> state4.self,
         raised        |-> \/ minterm1.raised # "none" \/ state1.raised # "none"
                           \/ state3.raised # "none" \/ state4.raised # "none"]

\* process_input setting the input layer before the relation is validated
process_input_unvalidated(heap, relations, typed) ==
    LET user_input == Upper(typed)
        input1 == set_current_state(heap.input_layer, relations[1].state).self
    IN  IF user_input \notin Keys(relations)
        THEN [heap |-> [heap EXCEPT !.input_layer = input1],
              ret |-> "error_state", log |-> "Error processing input"]
        ELSE LET heap1    == [heap EXCEPT !.input_layer =
                                 set_current_state(heap.input_layer,
                                                   Get(relations, user_input)).self]
                 minterm1 == compute_apical_state(heap1, heap1.minterm_layer).self
                 heap2    == [heap1 EXCEPT !.minterm_layer = minterm1]
                 state1   == compute_apical_state(heap2, heap2.state_layer).self
                 final    == compute_hopfield_state(state1)
             IN  [heap |-> [heap2 EXCEPT !.state_layer = final.self],
                  ret  |-> final.ret,
                  log  |-> final.log]

\* process_input, the relation typed at the prompt being `typed`
process_input(heap, relations, typed) ==
    LET user_input == Upper(typed)
    IN  IF user_input \notin Keys(relations)
        THEN [heap |-> heap, ret |-> "error_state", log |-> "Error processing input"]
        ELSE LET input1   == set_current_state(heap.input_layer, Get(relations, user_input)).self
                 heap1    == [heap EXCEPT !.input_layer = input1]
                 minterm1 == compute_apical_state(heap1, heap1.minterm_layer).self
                 heap2    == [heap1 EXCEPT !.minterm_layer = minterm1]
                 state1   == compute_apical_state(heap2, heap2.state_layer).self
                 final    == compute_hopfield_state(state1)
             IN  [heap |-> [heap2 EXCEPT !.state_layer = final.self],
                  ret  |-> final.ret,
                  log  |-> final.log]

-----------------------------------------------------------------------------
(* A SequentialNetwork driven through process_input *)

GO == <<"G", "O">>
go == <<"g", "o">>
Go == <<"G", "o">>
UP == <<"U", "P">>

\* the transition tables and relation labels the networks are built from; K is
\* the number of states, named StateIds[1..K]
Automata ==
    {[K |-> 1, transitions |-> << <<<<"A", "A">>>> >>, input_strings |-> <<GO>>],
     [K |-> 2, transitions |-> << <<<<"A", "B">>>> >>, input_strings |-> <<GO>>],
     [K |-> 2, transitions |-> << <<<<"A", "B">>>> >>, input_strings |-> <<go>>],
     [K |-> 2, transitions |-> << <<<<"A", "B">>, <<"B", "A">>>> >>, input_strings |-> <<GO>>],
     [K |-> 2, transitions |-> << <<<<"A", "B">>>>, <<<<"B", "A">>>> >>,
         input_strings |-> <<GO, UP>>],
     [K |-> 2, transitions |-> << <<<<"A", "B">>, <<"A", "A">>>>, << >> >>,
         input_strings |-> <<Go, UP>>]}

\* what is typed at the prompt
Typed == {GO, go, Go, UP, <<"x">>}

\* the number of transitions of a table
RECURSIVE CountTransitions(_)
CountTransitions(transition_data) ==
    IF transition_data = << >> THEN 0
    ELSE Len(Head(transition_data)) + CountTransitions(Tail(transition_data))

\* SequentialNetwork.__init__ over the given automata, with codes of dimension
\* N >= 2
Constructed(automata, MaxDim) ==
    \E automaton \in automata : \E N \in 2..MaxDim :
    \E codes \in [1..automaton.K -> Patterns(N)] :
    \E random_input \in Bipolar(Len(automaton.input_strings)) :
    \E random_minterm \in Bipolar(CountTransitions(automaton.transitions)) :
        LET built == initialise_networks(Codebook(codes), automaton.transitions,
                                         automaton.input_strings, random_input, random_minterm)
        IN  /\ ~built.raised
            /\ states = Codebook(codes)
            /\ transitions = automaton.transitions
            /\ input_strings = automaton.input_strings
            /\ inputs = built.inputs
            /\ input_layer = built.input_layer
            /\ minterm_layer = built.minterm_layer
            /\ state_layer = built.state_layer
            /\ op = "__init__"
            /\ arg = << >>
            /\ ret = "None"
            /\ log = "none"

Init == Constructed(Automata, MaxSeqN)

\* the result r of process_input(typed): the layers it leaves and what it returns
Processed(typed, r) ==
    /\ input_layer' = r.heap.input_layer
    /\ minterm_layer' = r.heap.minterm_layer
    /\ state_layer' = r.heap.state_layer
    /\ op' = "process_input"
    /\ arg' = typed
    /\ ret' = r.ret
    /\ log' = r.log
    /\ UNCHANGED <<states, transitions, input_strings, inputs>>

ProcessInput == \E typed \in Typed : Processed(typed, process_input(Heap, inputs, typed))

Next == ProcessInput

Spec == Init /\ [][Next]_vars

\* the automata in which a relation can be taken where it has no transition:
\* two relations of one transition each, and a relation without transitions
StuckAutomata ==
    {[K |-> 2, transitions |-> << <<<<"A", "B">>>>, <<<<"B", "A">>>> >>,
         input_strings |-> <<GO, UP>>],
     [K |-> 2, transitions |-> << <<<<"A", "B">>, <<"A", "A">>>>, << >> >>,
         input_strings |-> <<Go, UP>>]}

InitStuck == Constructed(StuckAutomata, MaxStuckN)

SpecStuck == InitStuck /\ [][Next]_vars

\* at most one transition per (source state, relation)
Deterministic(transition_data) ==
    \A g \in 1..Len(transition_data) : \A i, j \in 1..Len(transition_data[g]) :
        i # j => transition_data[g][i][1] # transition_data[g][j][1]

\* C1: in a network built from pairwise-orthogonal codes and a table with at
\* most one transition per (source, relation), a step whose relation has a
\* transition from the state the attractor layer holds returns the label of the
\* transition's target and leaves the attractor layer holding the target's code
\* (so, from the first state of the codebook, every run of such steps follows
\* the automaton).
C1_StepFollowsAutomaton ==
    [][(op' = "process_input" /\ MutuallyOrthogonal(states) /\ Deterministic(transitions)) =>
          \A g \in 1..Len(transitions) : \A j \in 1..Len(transitions[g]) :
              (/\ Upper(arg') = input_strings[g]
               /\ state_layer.currState = Get(states, transitions[g][j][1])) =>
                  /\ ret' = transitions[g][j][2]
                  /\ state_layer'.currState = Get(states, transitions[g][j][2])
      ]_vars

\* the typed label is a spelling of the configured label, up to letter case
SameUpToCase(typed, label) == Upper(typed) = Upper(label)

\* C2: a step whose label is a spelling of no configured relation returns the
\* error outcome and leaves the current state of the input layer, of the
\* minterm layer and of the attractor layer as they were.
C2_UnknownRelationLeavesLayers ==
    [][(/\ op' = "process_input"
        /\ \A g \in 1..Len(input_strings) : ~SameUpToCase(arg', input_strings[g])) =>
          /\ ret' = "error_state"
          /\ input_layer'.currState = input_layer.currState
          /\ minterm_layer'.currState = minterm_layer.currState
          /\ state_layer'.currState = state_layer.currState
      ]_vars

\* an unknown label was refused after the attractor layer had left the first code
C2_Witness ==
    /\ op = "process_input"
    /\ arg = <<"x">>
    /\ ret = "error_state"
    /\ state_layer.currState # states[1].state

\* C5: a step typed with any spelling, up to letter case, of a configured label
\* is accepted and sets the input layer to that label's relation vector.
C5_CaseInsensitiveLabels ==
    [][op' = "process_input" =>
          \A g \in 1..Len(input_strings) :
              SameUpToCase(arg', input_strings[g]) =>
                  /\ ret' # "error_state"
                  /\ input_layer'.currState = Get(inputs, input_strings[g])
      ]_vars

\* every component of v is +1 or -1
IsBipolar(v) == \A k \in 1..Len(v) : v[k] \in {-1, 1}

\* the typed relation is configured, as group g
Configured(typed, g) == g \in 1..Len(input_strings) /\ Upper(typed) = input_strings[g]

\* the attractor state is the source code of none of the transitions of the
\* typed relation
NothingFires(typed, attractor) ==
    \E g \in 1..Len(input_strings) :
        /\ Configured(typed, g)
        /\ \A j \in 1..Len(transitions[g]) : attractor # Get(states, transitions[g][j][1])

\* the state layer after an apical update in which no minterm fired: the sign
\* of minus the sum of the target codes
Unfired ==
    [k \in 1..state_layer.N |->
        Sign(-SumSeq([g \in 1..Len(transitions) |->
                         SumSeq([j \in 1..Len(transitions[g]) |->
                                    Get(states, transitions[g][j][2])[k]])]))]

\* the relaxation from Unfired: the state z it ends in and the label it returns
Settled == compute_hopfield_state(set_current_state(state_layer, Unfired).self)

\* z is the source code of no transition
Stuck(z) ==
    \A g \in 1..Len(transitions) : \A j \in 1..Len(transitions[g]) :
        z # Get(states, transitions[g][j][1])

\* C14: a step with a configured relation for which no minterm fires leaves the
\* attractor layer at one state z and returns one label, the same whatever the
\* attractor held before and whatever the relation; and when z is the source
\* code of no transition, every accepted step taken at z leaves the attractor at
\* z and returns that label again.
C14_UnfiredStepSettlesAndSticks ==
    [][(op' = "process_input" /\ \E g \in 1..Len(input_strings) : Configured(arg', g)) =>
          \A z \in {Settled} :
              /\ NothingFires(arg', state_layer.currState) =>
                     /\ state_layer'.currState = z.self.currState
                     /\ ret' = z.ret
              /\ (state_layer.currState = z.self.currState /\ Stuck(z.self.currState)) =>
                     /\ state_layer'.currState = state_layer.currState
                     /\ ret' = z.ret
      ]_vars

\* an accepted step left the attractor at z, a state that is no source code and
\* not the first code, in a network whose apical update leaves zeros when
\* nothing fires
C14_Witness ==
    /\ op = "process_input"
    /\ ret = Settled.ret
    /\ state_layer.currState = Settled.self.currState
    /\ Stuck(state_layer.currState)
    /\ state_layer.currState # states[1].state
    /\ ~IsBipolar(Unfired)

-----------------------------------------------------------------------------
(* The layers of a SequentialNetwork driven through their own methods. The
   apical updates are made where process_input makes them, the only caller of
   compute_apical_state: on the minterm layer once the input layer is set, on
   the state layer once the minterm layer is updated *)

\* the automata the layers are built from: two minterms that differ in their
\* source state only, and two that differ in both relation and source
LayerAutomata ==
    {[K |-> 2, transitions |-> << <<<<"A", "B">>, <<"B", "A">>>> >>, input_strings |-> <<GO>>],
     [K |-> 2, transitions |-> << <<<<"A", "B">>>>, <<<<"B", "A">>>> >>,
         input_strings |-> <<GO, UP>>]}

InitLayers == Constructed(LayerAutomata, MaxLayersN)

\* a method call on one layer, leaving the layers next_input, next_minterm and
\* next_state
LayerCalled(name, next_input, next_minterm, next_state) ==
    /\ input_layer' = next_input
    /\ minterm_layer' = next_minterm
    /\ state_layer' = next_state
    /\ op' = name
    /\ arg' = << >>
    /\ ret' = "None"
    /\ log' = "none"
    /\ UNCHANGED <<states, transitions, input_strings, inputs>>

\* input_layer.set_current_state(v)
SetInputState ==
    \E v \in Bipolar(input_layer.N) :
        LayerCalled("input_layer.set_current_state",
                    set_current_state(input_layer, v).self, minterm_layer, state_layer)

\* state_layer.set_current_state(v)
SetAttractorState ==
    \E v \in Bipolar(state_layer.N) :
        LayerCalled("state_layer.set_current_state",
                    input_layer, minterm_layer, set_current_state(state_layer, v).self)

\* minterm_layer.compute_apical_state()
MintermApical ==
    /\ op = "input_layer.set_current_state"
    /\ LayerCalled("minterm_layer.compute_apical_state",
                   input_layer, compute_apical_state(Heap, minterm_layer).self, state_layer)

\* state_layer.compute_apical_state()
StateApical ==
    /\ op = "minterm_layer.compute_apical_state"
    /\ LayerCalled("state_layer.compute_apical_state",
                   input_layer, minterm_layer, compute_apical_state(Heap, state_layer).self)

NextLayers ==
    SetInputState \/ SetAttractorState \/ MintermApical \/ StateApical \/ ComputeHopfieldState

SpecLayers == InitLayers /\ [][NextLayers]_vars

\* the minterms of the network, in the order of the units of the minterm layer
Minterms == create_minterm_data(states, transitions, Values(inputs), 1)

\* C4: after the minterm layer's apical update, with a bipolar input state and
\* a bipolar attractor state, unit i is +1 if the input layer holds minterm i's
\* relation vector and the attractor layer holds minterm i's source code, and
\* -1 in every other case.
C4_MintermFiresOnExactMatch ==
    (/\ op = "minterm_layer.compute_apical_state"
     /\ IsBipolar(input_layer.currState)
     /\ IsBipolar(state_layer.currState)) =>
        \A i \in 1..Len(Minterms) :
            minterm_layer.currState[i] =
                IF /\ input_layer.currState = Minterms[i].relation_signal
                   /\ state_layer.currState = Minterms[i].input_pattern
                THEN 1 ELSE -1

\* after an apical update of the minterm layer one unit fired and another, whose
\* source code differs from the attractor state in one component, did not
C4_Witness ==
    /\ op = "minterm_layer.compute_apical_state"
    /\ IsBipolar(state_layer.currState)
    /\ \E i, j \in 1..Len(Minterms) :
           /\ minterm_layer.currState[i] = 1
           /\ minterm_layer.currState[j] = -1
           /\ input_layer.currState = Minterms[j].relation_signal
           /\ Dot(state_layer.currState, Minterms[j].input_pattern) = state_layer.N - 2

\* C10: the current state of every layer is a bipolar vector.
C10_LayersStayBipolar ==
    /\ IsBipolar(input_layer.currState)
    /\ IsBipolar(minterm_layer.currState)
    /\ IsBipolar(state_layer.currState)

-----------------------------------------------------------------------------
(* set_outer_weights called on the layers of a SequentialNetwork: the input
   layer has no neighbour, the minterm layer has both, the state layer has a
   lower neighbour only *)

\* the automaton the layers are built from
WeightAutomata ==
    {[K |-> 1, transitions |-> << <<<<"A", "A">>>> >>, input_strings |-> <<GO>>]}

InitWeights == Constructed(WeightAutomata, MaxWeightsN)

LayerNames == {"input_layer", "minterm_layer", "state_layer"}

\* an r x c float matrix of ones
Ones(r, c) == [i \in 1..r |-> [j \in 1..c |-> 1]]

\* the number of columns a weight matrix towards `neighbour` has when it fits;
\* without a neighbour, that of the matrix the constructor made
Columns(heap, self, neighbour) == IF neighbour # "None" THEN heap[neighbour].N ELSE self.N

\* the lower matrices handed over: one that fits and one with a column too many
LowerGiven(heap, self) ==
    {Ones(self.N, Columns(heap, self, self.lowerNetwork)),
     Ones(self.N, Columns(heap, self, self.lowerNetwork) + 1)}

\* the upper matrix handed over
UpperGiven(heap, self) == ZerosMatrix(self.N, Columns(heap, self, self.upperNetwork))

\* the thresholds handed over: of the layer's size, one shorter, one longer
ThresholdsGiven(self) ==
    {[num |-> [i \in 1..len |-> 1], den |-> 1] : len \in {self.N - 1, self.N, self.N + 1}}

\* the result r of layer.set_outer_weights(given.lower, given.upper, given.thresholds)
WeightsSet(given, r) ==
    /\ input_layer' = IF given.layer = "input_layer" THEN r.self ELSE input_layer
    /\ minterm_layer' = IF given.layer = "minterm_layer" THEN r.self ELSE minterm_layer
    /\ state_layer' = IF given.layer = "state_layer" THEN r.self ELSE state_layer
    /\ op' = "set_outer_weights"
    /\ arg' = given
    /\ ret' = IF r.raised # "none" THEN r.raised ELSE r.ret
    /\ log' = "none"
    /\ UNCHANGED <<states, transitions, input_strings, inputs>>

SetOuterWeights ==
    \E layer \in LayerNames :
    \E lower \in LowerGiven(Heap, Heap[layer]) :
    \E thresholds \in ThresholdsGiven(Heap[layer]) :
        WeightsSet([layer |-> layer, lower |-> lower,
                    upper |-> UpperGiven(Heap, Heap[layer]), thresholds |-> thresholds],
                   set_outer_weights(Heap, Heap[layer], lower,
                                     UpperGiven(Heap, Heap[layer]), thresholds))

NextWeights == SetOuterWeights

SpecWeights == InitWeights /\ [][NextWeights]_vars

\* C11: set_outer_weights with a thresholds vector whose length is not the
\* layer's size raises, and leaves the layer's lower weights, upper weights and
\* thresholds as they were.
C11_WrongThresholdsRejected ==
    [][(/\ op' = "set_outer_weights"
        /\ Len(arg'.thresholds.num) # Heap[arg'.layer].N) =>
          /\ ret' = "ValueError"
          /\ Heap'[arg'.layer].lowerWeights = Heap[arg'.layer].lowerWeights
          /\ Heap'[arg'.layer].upperWeights = Heap[arg'.layer].upperWeights
          /\ Heap'[arg'.layer].thresholds = Heap[arg'.layer].thresholds
      ]_vars

\* a call with thresholds one too long was refused although its matrices fit
\* and differ from the ones the layer keeps
C11_Witness ==
    /\ op = "set_outer_weights"
    /\ ret = "ValueError"
    /\ Len(arg.thresholds.num) = Heap[arg.layer].N + 1
    /\ Shape(arg.lower) = Shape(Heap[arg.layer].lowerWeights)
    /\ arg.lower # Heap[arg.layer].lowerWeights

\* the matrix has an entry that is not zero
HasNonzero(matrix) ==
    \E i \in 1..Len(matrix) : \E j \in 1..Len(matrix[i]) : matrix[i][j] # 0

\* C12: set_outer_weights on a layer without a lower neighbour raises when the
\* lower matrix has a nonzero entry, and does not install it.
C12_NonzeroLowerWithoutNeighbourRejected ==
    [][(/\ op' = "set_outer_weights"
        /\ Heap[arg'.layer].lowerNetwork = "None"
        /\ HasNonzero(arg'.lower)) =>
          /\ ret' = "ValueError"
          /\ Heap'[arg'.layer].lowerWeights = Heap[arg'.layer].lowerWeights
      ]_vars

-----------------------------------------------------------------------------
(* The state layer's apical update over the states the minterm layer can hold *)

\* the automata the layers are built from: one, two and three minterms
TargetAutomata ==
    {[K |-> 1, transitions |-> << <<<<"A", "A">>>> >>, input_strings |-> <<GO>>],
     [K |-> 2, transitions |-> << <<<<"A", "B">>, <<"B", "A">>>> >>, input_strings |-> <<GO>>],
     [K |-> 2, transitions |-> << <<<<"A", "B">>, <<"B", "A">>, <<"A", "A">>>> >>,
         input_strings |-> <<GO>>]}

InitTarget == Constructed(TargetAutomata, MaxTargetN)

\* minterm_layer.set_current_state(v)
SetMintermState ==
    \E v \in Bipolar(minterm_layer.N) :
        LayerCalled("minterm_layer.set_current_state",
                    input_layer, set_current_state(minterm_layer, v).self, state_layer)

\* state_layer.compute_apical_state() on the minterm state just set
StateApicalOnMinterms ==
    /\ op = "minterm_layer.set_current_state"
    /\ LayerCalled("state_layer.compute_apical_state",
                   input_layer, minterm_layer, compute_apical_state(Heap, state_layer).self)

NextTarget == SetMintermState \/ StateApicalOnMinterms

SpecTarget == InitTarget /\ [][NextTarget]_vars

\* the minterm state in which unit c alone is +1
OnlyFires(M, c) == [i \in 1..M |-> IF i = c THEN 1 ELSE -1]

\* C13: after the state layer's apical update, when unit c of the minterm layer
\* alone is +1 and every other unit is -1, the state layer holds the target code
\* of minterm c in every component.
C13_SingleMintermGivesTarget ==
    op = "state_layer.compute_apical_state" =>
        \A c \in 1..Len(Minterms) :
            minterm_layer.currState = OnlyFires(Len(Minterms), c) =>
                state_layer.currState = Minterms[c].output_state

\* the apical update ran with one of three minterms firing, the targets of the
\* other two being of another code, not orthogonal to it
C13_Witness ==
    /\ op = "state_layer.compute_apical_state"
    /\ Len(Minterms) = 3
    /\ \E c \in 1..3 :
           /\ minterm_layer.currState = OnlyFires(3, c)
           /\ \A j \in 1..3 : j # c =>
                  /\ Minterms[j].output_state # Minterms[c].output_state
                  /\ Dot(Minterms[j].output_state, Minterms[c].output_state) # 0

====
